---- MODULE Spec2Model ----
(***************************************************************************)
(* A model of the GraphQL codegen fragments plugin                         *)
(* (src/src/fragments-plugin.ts and its CommonJS twin) and of the runtime  *)
(* query renderer (the helpers part of src/unnamed/part_000).              *)
(*                                                                         *)
(* Every string of the program is a sequence of one-character strings, so  *)
(* that concatenation, search and replacement are computed, not assumed.   *)
(***************************************************************************)
EXTENDS Integers, Sequences, FiniteSets, TLC

VARIABLES
    schema,       \* the loaded GraphQLSchema (type map, fields, root types)
    cfg,          \* FragmentsPluginConfig of the last compiler call
    order,        \* plugin: const order = topoOrder(collectDeps(schema))
    out,          \* plugin: the export declarations pushed to out[]
    call,         \* the last direct buildMapForType call (its arguments)
    acc,          \* the array that call returned
    queryFlags,   \* let queryFlags: the argument names rendered as flags
    queryEnums,   \* let queryEnums: the argument names rendered as enums
    req,          \* the render call under study: function and arguments
    res           \* what the most recent call of the helpers returned

compilerVars == <<schema, cfg, order, out, call, acc>>
helperVars   == <<queryFlags, queryEnums, req, res>>
vars == <<schema, cfg, order, out, call, acc, queryFlags, queryEnums, req, res>>

-----------------------------------------------------------------------------
(* Bounds of the model *)

\* total number of fields declared by the user's object types
MaxFields == 2
\* largest depth budget handed to buildMapForType
MaxDepth == 2
\* largest number of keys of an argument map
MaxArgs == 2

-----------------------------------------------------------------------------
(* Names *)

nQuery    == <<"Q","u","e","r","y">>
nMutation == <<"M","u","t","a","t","i","o","n">>
nUser     == <<"U","s","e","r">>
nString   == <<"S","t","r","i","n","g">>
nRole     == <<"R","o","l","e">>
nNode     == <<"N","o","d","e">>
nResult   == <<"R","e","s","u","l","t">>
nType     == <<"_","_","T","y","p","e">>
nAccount  == <<"A","c","c","o","u","n","t">>
nID       == <<"I","D">>
nInt      == <<"I","n","t">>
nFloat    == <<"F","l","o","a","t">>
nBoolean  == <<"B","o","o","l","e","a","n">>
nUUID     == <<"U","U","I","D">>
nTypeKind == <<"_","_","T","y","p","e","K","i","n","d">>

\* the object types a schema of the model declares
ObjNames == {nQuery, nMutation, nUser}
\* the introspection object type graphql-js adds to every type map
IntroNames == {nType}
ScalarNames == {nString, nID, nInt, nFloat, nBoolean, nUUID}
EnumNames == {nRole, nTypeKind}

\* kind of a named type (GraphQLObjectType, GraphQLScalarType, ...)
KindOf(n) ==
    CASE n \in ObjNames \cup IntroNames -> "OBJECT"
      [] n \in ScalarNames -> "SCALAR"
      [] n \in EnumNames -> "ENUM"
      [] n = nNode -> "INTERFACE"
      [] OTHER       -> "UNION"

\* field names by declaration position: a schema uses one of these two tables
FieldNamesPlain ==
    << <<"i","d">>, <<"o","w","n","e","r">>, <<"i","t","e","m","s">>,
       <<"t","a","g","s">>, <<"n","e","x","t">> >>
FieldNamesReserved ==
    << <<"_","_","m","e","t","a">>, <<"i","d">>, <<"o","w","n","e","r">>,
       <<"i","t","e","m","s">>, <<"t","a","g","s">> >>
FieldNameTables == {FieldNamesPlain, FieldNamesReserved}

\* the NonNull / List wrappers around the named type, by declaration position
WrapAt ==
    << <<>>, <<"NonNull">>, <<"List", "NonNull">>, <<"NonNull", "List">>, <<"List">> >>

-----------------------------------------------------------------------------
(* Utilities *)

RECURSIVE unwrap(_)
unwrap(type) ==
    IF type.wrap # <<>> THEN unwrap([type EXCEPT !.wrap = Tail(@)]) ELSE type.named

isScalarType(t) == KindOf(t) = "SCALAR"
isEnumType(t)   == KindOf(t) = "ENUM"
isObjectType(t) == KindOf(t) = "OBJECT"
isLeaf(t)       == isScalarType(t) \/ isEnumType(t)

\* name.startsWith('__')
startsWith__(name) == Len(name) >= 2 /\ name[1] = "_" /\ name[2] = "_"

-----------------------------------------------------------------------------
(* JavaScript Map and Set: both iterate in insertion order *)

EmptyMap == [keys |-> <<>>, val |-> <<>>]
MapHas(m, k) == k \in DOMAIN m.val
MapGet(m, k) == m.val[k]
MapSet(m, k, v) ==
    [keys |-> IF MapHas(m, k) THEN m.keys ELSE Append(m.keys, k),
     val  |-> (k :> v) @@ m.val]

SeqHas(s, x) == \E i \in 1..Len(s) : s[i] = x
SetAdd(s, x) == IF SeqHas(s, x) THEN s ELSE Append(s, x)

-----------------------------------------------------------------------------
(* Dependency graph + topological order (Kahn) *)

\* the inner loop of collectDeps: the fields of the type `name`, from the i-th on
RECURSIVE collectDepsFields(_, _, _, _)
collectDepsFields(s, name, i, deps) ==
    IF i > Len(s.fields[name]) THEN deps
    ELSE LET ft == unwrap(s.fields[name][i].type)
         IN  IF isObjectType(ft)
             THEN LET d1 == IF MapHas(deps, ft) THEN deps ELSE MapSet(deps, ft, <<>>)
                      d2 == MapSet(d1, ft, SetAdd(MapGet(d1, ft), name))
                  IN  collectDepsFields(s, name, i + 1, d2)
             ELSE collectDepsFields(s, name, i + 1, deps)

\* the outer loop of collectDeps: the entries of the type map, from the i-th on
RECURSIVE collectDepsTypes(_, _, _)
collectDepsTypes(s, i, deps) ==
    IF i > Len(s.typeMap) THEN deps
    ELSE LET name == s.typeMap[i]
         IN  IF ~isObjectType(name) \/ startsWith__(name)
             THEN collectDepsTypes(s, i + 1, deps)
             ELSE LET d1 == IF MapHas(deps, name) THEN deps ELSE MapSet(deps, name, <<>>)
                  IN  collectDepsTypes(s, i + 1, collectDepsFields(s, name, 1, d1))

collectDeps(s) == collectDepsTypes(s, 1, EmptyMap)

\* topoOrder, first loop, inner: the dependents m of n, from the j-th on
RECURSIVE topoDegInner(_, _, _, _)
topoDegInner(set, n, j, st) ==
    IF j > Len(set) THEN st
    ELSE LET m    == set[j]
             old  == IF MapHas(st.inDeg, m) THEN MapGet(st.inDeg, m) ELSE 0
             deg1 == MapSet(st.inDeg, m, old + 1)
             adj1 == MapSet(st.adj, n, SetAdd(MapGet(st.adj, n), m))
             deg2 == IF MapHas(deg1, m) THEN deg1 ELSE MapSet(deg1, m, 0)
             adj2 == IF MapHas(adj1, m) THEN adj1 ELSE MapSet(adj1, m, <<>>)
         IN  topoDegInner(set, n, j + 1, [inDeg |-> deg2, adj |-> adj2])

\* topoOrder, first loop, outer: the entries of deps, from the i-th on
RECURSIVE topoDeg(_, _, _)
topoDeg(deps, i, st) ==
    IF i > Len(deps.keys) THEN st
    ELSE LET n    == deps.keys[i]
             deg1 == IF MapHas(st.inDeg, n) THEN st.inDeg ELSE MapSet(st.inDeg, n, 0)
             adj1 == IF MapHas(st.adj, n) THEN st.adj ELSE MapSet(st.adj, n, <<>>)
         IN  topoDeg(deps, i + 1,
                     topoDegInner(MapGet(deps, n), n, 1, [inDeg |-> deg1, adj |-> adj1]))

\* for (const [n, d] of inDeg.entries()) if (d === 0) q.push(n)
RECURSIVE topoReady(_, _)
topoReady(inDeg, i) ==
    IF i > Len(inDeg.keys) THEN <<>>
    ELSE (IF MapGet(inDeg, inDeg.keys[i]) = 0 THEN <<inDeg.keys[i]>> ELSE <<>>)
         \o topoReady(inDeg, i + 1)

\* the body of the while loop for one dequeued n: its dependents, from the j-th on
RECURSIVE topoRelax(_, _, _)
topoRelax(set, j, st) ==
    IF j > Len(set) THEN st
    ELSE LET m    == set[j]
             old  == IF MapHas(st.inDeg, m) THEN MapGet(st.inDeg, m) ELSE 0
             deg1 == MapSet(st.inDeg, m, old - 1)
             q1   == IF MapGet(deg1, m) = 0 THEN Append(st.q, m) ELSE st.q
         IN  topoRelax(set, j + 1, [st EXCEPT !.inDeg = deg1, !.q = q1])

\* while (q.length) { const n = q.shift(); out.push(n); ... }
RECURSIVE topoDrain(_, _)
topoDrain(adj, st) ==
    IF st.q = <<>> THEN st
    ELSE LET n  == Head(st.q)
             s1 == [st EXCEPT !.q = Tail(@), !.out = Append(@, n)]
         IN  topoDrain(adj, topoRelax(IF MapHas(adj, n) THEN MapGet(adj, n) ELSE <<>>, 1, s1))

\* for (const n of inDeg.keys()) if (!out.includes(n)) out.push(n)
RECURSIVE topoRest(_, _, _)
topoRest(keys, i, o) ==
    IF i > Len(keys) THEN o
    ELSE topoRest(keys, i + 1, IF SeqHas(o, keys[i]) THEN o ELSE Append(o, keys[i]))

\* topoOrder without the pass that appends the types a cycle kept out of the queue
topoOrderNoRest(deps) ==
    LET built == topoDeg(deps, 1, [inDeg |-> EmptyMap, adj |-> EmptyMap])
    IN  topoDrain(built.adj, [q |-> topoReady(built.inDeg, 1), out |-> <<>>,
                              inDeg |-> built.inDeg]).out

topoOrder(deps) ==
    LET built == topoDeg(deps, 1, [inDeg |-> EmptyMap, adj |-> EmptyMap])
        inDeg == built.inDeg
        adj   == built.adj
        done  == topoDrain(adj, [q |-> topoReady(inDeg, 1), out |-> <<>>, inDeg |-> inDeg])
    IN  IF Len(done.out) < Len(inDeg.keys)
        THEN topoRest(inDeg.keys, 1, done.out)
        ELSE done.out

-----------------------------------------------------------------------------
(* Naming *)

Lowers == << "a","b","c","d","e","f","g","h","i","j","k","l","m",
             "n","o","p","q","r","s","t","u","v","w","x","y","z" >>
Uppers == << "A","B","C","D","E","F","G","H","I","J","K","L","M",
             "N","O","P","Q","R","S","T","U","V","W","X","Y","Z" >>
Digits == << "0","1","2","3","4","5","6","7","8","9" >>

isLower(c) == SeqHas(Lowers, c)
isUpper(c) == SeqHas(Uppers, c)
isDigit(c) == SeqHas(Digits, c)
toUpper(c) == IF isLower(c) THEN Uppers[CHOOSE i \in 1..Len(Lowers) : Lowers[i] = c] ELSE c
toLower(c) == IF isUpper(c) THEN Lowers[CHOOSE i \in 1..Len(Uppers) : Uppers[i] = c] ELSE c

\* pascalCase of change-case: the name is cut into words at every character that
\* is no letter or digit, between a lower-case letter or digit and an upper-case
\* letter, and before the last of a run of upper-case letters that a lower-case
\* letter follows; each word gets an upper-case first letter and a lower-case
\* rest; the words are joined with nothing between them.
RECURSIVE pascalCaseFrom(_, _, _)
pascalCaseFrom(name, i, wordStart) ==
    IF i > Len(name) THEN <<>>
    ELSE LET c == name[i]
         IN  IF ~(isLower(c) \/ isUpper(c) \/ isDigit(c))
             THEN pascalCaseFrom(name, i + 1, TRUE)
             ELSE LET boundary ==
                          \/ i > 1 /\ isUpper(c)
                                /\ (isLower(name[i - 1]) \/ isDigit(name[i - 1]))
                          \/ i > 1 /\ i < Len(name) /\ isUpper(c)
                                /\ isUpper(name[i - 1]) /\ isLower(name[i + 1])
                  IN  <<IF wordStart \/ boundary THEN toUpper(c) ELSE toLower(c)>>
                      \o pascalCaseFrom(name, i + 1, FALSE)

pascalCase(name) == pascalCaseFrom(name, 1, TRUE)

toTsName(name, c) ==
    IF name \in DOMAIN c.rename THEN c.rename[name]
    ELSE IF c.namingConvention = "keep" THEN name
    ELSE IF c.namingConvention = "change-case-all#pascalCase" THEN pascalCase(name)
    ELSE pascalCase(name)

sMap == <<"M","a","p">>

\* { __ref: name }
ref(name) == [__ref |-> name]

-----------------------------------------------------------------------------
(* Build selection map.  An element of a map is a bare field name,          *)
(* [kind |-> "name", key |-> name], or a single-key object whose value is a *)
(* reference marker, [kind |-> "ref", key |-> name, val |-> ref(..)], or a  *)
(* nested map, [kind |-> "map", key |-> name, val |-> <<..>>].              *)

Bare(name)        == [kind |-> "name", key |-> name]
KeyRef(name, r)   == [kind |-> "ref", key |-> name, val |-> r]
KeyMap(name, sub) == [kind |-> "map", key |-> name, val |-> sub]

RECURSIVE buildMapFrom(_, _, _, _, _, _, _)
buildMapForType(s, t, maxDepth, c, mode, allowRefs) ==
    buildMapFrom(s, t, maxDepth, c, mode, allowRefs, 1)

\* buildMapForType whose 'parent' mode inlines like the 'sub' mode without references
buildMapFromParentInlines(s, t, maxDepth, c, mode, allowRefs, i) ==
    IF i > Len(s.fields[t]) THEN <<>>
    ELSE LET name == s.fields[t][i].name
             ft   == unwrap(s.fields[t][i].type)
             rest == buildMapFrom(s, t, maxDepth, c, mode, allowRefs, i + 1)
         IN  IF startsWith__(name) THEN rest
             ELSE IF isLeaf(ft) THEN <<Bare(name)>> \o rest
             ELSE IF isObjectType(ft)
                  THEN IF allowRefs /\ mode = "sub"
                       THEN <<KeyRef(name, ref(toTsName(ft, c) \o sMap))>> \o rest
                       ELSE IF maxDepth > 1
                            THEN <<KeyMap(name, buildMapFrom(s, ft, maxDepth - 1, c,
                                                             "sub", allowRefs, 1))>> \o rest
                            ELSE <<Bare(name)>> \o rest
             ELSE <<Bare(name)>> \o rest

\* buildMapForType that still inlines at budget 1
buildMapFromInlineAtOne(s, t, maxDepth, c, mode, allowRefs, i) ==
    IF i > Len(s.fields[t]) THEN <<>>
    ELSE LET name == s.fields[t][i].name
             ft   == unwrap(s.fields[t][i].type)
             rest == buildMapFrom(s, t, maxDepth, c, mode, allowRefs, i + 1)
         IN  IF startsWith__(name) THEN rest
             ELSE IF isObjectType(ft) /\ (mode = "parent" \/ allowRefs)
                  THEN <<KeyRef(name, ref(toTsName(ft, c) \o sMap))>> \o rest
             ELSE IF isObjectType(ft) /\ maxDepth > 0
                  THEN <<KeyMap(name, buildMapFrom(s, ft, maxDepth - 1, c,
                                                   "sub", allowRefs, 1))>> \o rest
             ELSE <<Bare(name)>> \o rest

\* buildMapForType that pushes each element to the front of acc
buildMapFromReversed(s, t, maxDepth, c, mode, allowRefs, i) ==
    IF i > Len(s.fields[t]) THEN <<>>
    ELSE LET name == s.fields[t][i].name
             ft   == unwrap(s.fields[t][i].type)
             rest == buildMapFrom(s, t, maxDepth, c, mode, allowRefs, i + 1)
         IN  IF startsWith__(name) THEN rest
             ELSE IF isObjectType(ft) /\ (mode = "parent" \/ allowRefs)
                  THEN rest \o <<KeyRef(name, ref(toTsName(ft, c) \o sMap))>>
             ELSE rest \o <<Bare(name)>>

\* the for loop of buildMapForType over Object.keys(fields), from the i-th key on
buildMapFrom(s, t, maxDepth, c, mode, allowRefs, i) ==
    IF i > Len(s.fields[t]) THEN <<>>
    ELSE LET name == s.fields[t][i].name
             ft   == unwrap(s.fields[t][i].type)
             rest == buildMapFrom(s, t, maxDepth, c, mode, allowRefs, i + 1)
         IN  IF startsWith__(name) THEN rest
             ELSE IF isLeaf(ft) THEN <<Bare(name)>> \o rest
             ELSE IF isObjectType(ft) /\ mode = "parent"
                  THEN <<KeyRef(name, ref(toTsName(ft, c) \o sMap))>> \o rest
             ELSE IF isObjectType(ft) /\ mode = "sub"
                  THEN IF allowRefs
                       THEN <<KeyRef(name, ref(toTsName(ft, c) \o sMap))>> \o rest
                       ELSE IF maxDepth > 1
                            THEN <<KeyMap(name, buildMapFrom(s, ft, maxDepth - 1, c,
                                                             "sub", allowRefs, 1))>> \o rest
                            ELSE <<Bare(name)>> \o rest
             ELSE <<Bare(name)>> \o rest

-----------------------------------------------------------------------------
(* Printing *)

sNL      == <<"\n">>
sHeader  == << "/", "*", " ", "A", "U", "T", "O", "-", "G", "E", "N", "E", "R", "A", "T", "E", "D", ":", " ", "d", "o", " ", "n", "o", "t", " ", "e", "d", "i", "t", " ", "b", "y", " ", "h", "a", "n", "d", " ", "*", "/" >>
sImportG == << "i", "m", "p", "o", "r", "t", " ", "t", "y", "p", "e", " ", "{", " ", "G", "Q", "L", "M", "a", "p", " ", "}", " ", "f", "r", "o", "m", " ", "'" >>
sImportT == << "i", "m", "p", "o", "r", "t", " ", "*", " ", "a", "s", " ", "T", " ", "f", "r", "o", "m", " ", "'" >>
sExport  == << "e", "x", "p", "o", "r", "t", " ", "c", "o", "n", "s", "t", " " >>
sGQLMapT == << ":", " ", "G", "Q", "L", "M", "a", "p", "<", "T", "." >>
sNumber  == << "n", "u", "m", "b", "e", "r" >>
sAsAny   == << " ", "a", "s", " ", "a", "n", "y" >>
sHelpers == << ".", ".", "/", "l", "i", "b", "/", "g", "q", "l", ".", "h", "e", "l", "p", "e", "r", "s" >>
sTypes   == << ".", "/", "g", "r", "a", "p", "h", "q", "l" >>

RECURSIVE pad(_)
pad(n) == IF n <= 0 THEN <<>> ELSE <<" ", " ">> \o pad(n - 1)

\* items.join(sep)
RECURSIVE join(_, _)
join(items, sep) ==
    IF items = <<>> THEN <<>>
    ELSE IF Len(items) = 1 THEN items[1]
    ELSE items[1] \o sep \o join(Tail(items), sep)

RECURSIVE printMap(_, _)
\* printMap of one element of an array
printItem(e, indent) ==
    IF e.kind = "name" THEN <<"'">> \o e.key \o <<"'">>
    ELSE IF e.kind = "ref" THEN <<"{", " ">> \o e.key \o <<":", " ">> \o e.val.__ref \o <<" ", "}">>
    ELSE <<"{", " ">> \o e.key \o <<":", " ">> \o printMap(e.val, indent + 1) \o <<" ", "}">>

\* printMap of an array
printMap(node, indent) ==
    LET items == [k \in 1..Len(node) |-> printItem(node[k], indent + 1)]
        inner == join(items, <<",">> \o sNL \o pad(indent + 1))
    IN  <<"[">> \o sNL \o pad(indent + 1) \o inner \o sNL \o pad(indent) \o <<"]">>

-----------------------------------------------------------------------------
(* Decimal numerals *)

RECURSIVE toDecimal(_)
toDecimal(n) ==
    IF n < 0 THEN <<"-">> \o toDecimal(0 - n)
    ELSE IF n < 10 THEN <<Digits[n + 1]>>
    ELSE toDecimal(n \div 10) \o <<Digits[(n % 10) + 1]>>

-----------------------------------------------------------------------------
(* JavaScript values of the renderer.  A value is [t |-> "undefined"],      *)
(* [t |-> "null"], [t |-> "boolean", b |-> ..], [t |-> "number", n |-> ..], *)
(* [t |-> "string", s |-> chars], [t |-> "array", a |-> <<values>>] or      *)
(* [t |-> "object", keys |-> <<names>>, vals |-> <<values>>] (own           *)
(* enumerable keys in insertion order).                                     *)

Undefined == [t |-> "undefined"]
Null      == [t |-> "null"]
Bool(b)   == [t |-> "boolean", b |-> b]
Num(n)    == [t |-> "number", n |-> n]
Str(s)    == [t |-> "string", s |-> s]
Arr(a)    == [t |-> "array", a |-> a]
Obj(k, v) == [t |-> "object", keys |-> k, vals |-> v]

sTrue      == <<"t", "r", "u", "e">>
sFalse     == <<"f", "a", "l", "s", "e">>
sNull      == <<"n", "u", "l", "l">>
sUndefined == <<"u", "n", "d", "e", "f", "i", "n", "e", "d">>
sObject    == <<"[", "o", "b", "j", "e", "c", "t", " ", "O", "b", "j", "e", "c", "t", "]">>

RECURSIVE toStr(_)
\* Array.prototype.join: undefined and null elements give the empty string
joinValues(a, sep) ==
    join([i \in 1..Len(a) |->
             IF a[i].t \in {"undefined", "null"} THEN <<>> ELSE toStr(a[i])], sep)

\* String(v), and v inside a template literal
toStr(v) ==
    CASE v.t = "undefined" -> sUndefined
      [] v.t = "null"      -> sNull
      [] v.t = "boolean"   -> IF v.b THEN sTrue ELSE sFalse
      [] v.t = "number"    -> toDecimal(v.n)
      [] v.t = "string"    -> v.s
      [] v.t = "array"     -> joinValues(v.a, <<",">>)
      [] OTHER             -> sObject

\* ToBoolean(v)
Truthy(v) ==
    CASE v.t = "undefined" -> FALSE
      [] v.t = "null"      -> FALSE
      [] v.t = "boolean"   -> v.b
      [] v.t = "number"    -> v.n # 0
      [] v.t = "string"    -> v.s # <<>>
      [] OTHER             -> TRUE

\* the characters of a string between the quotes JSON.stringify puts around it
RECURSIVE jsonEscape(_)
jsonEscape(str) ==
    IF str = <<>> THEN <<>>
    ELSE (CASE Head(str) = "\"" -> <<"\\", "\"">>
            [] Head(str) = "\\" -> <<"\\", "\\">>
            [] Head(str) = "\n" -> <<"\\", "n">>
            [] OTHER            -> <<Head(str)>>) \o jsonEscape(Tail(str))

\* JSON.stringify(v): a string value, or undefined
RECURSIVE JSONstringify(_)
JSONstringify(v) ==
    CASE v.t = "undefined" -> Undefined
      [] v.t = "null"      -> Str(sNull)
      [] v.t = "boolean"   -> Str(IF v.b THEN sTrue ELSE sFalse)
      [] v.t = "number"    -> Str(toDecimal(v.n))
      [] v.t = "string"    -> Str(<<"\"">> \o jsonEscape(v.s) \o <<"\"">>)
      [] v.t = "array"     ->
            Str(<<"[">> \o join([i \in 1..Len(v.a) |->
                                   IF JSONstringify(v.a[i]).t = "undefined" THEN sNull
                                   ELSE JSONstringify(v.a[i]).s], <<",">>) \o <<"]">>)
      [] OTHER             ->
            Str(<<"{">> \o join(SelectSeq(
                                  [i \in 1..Len(v.keys) |->
                                     IF JSONstringify(v.vals[i]).t = "undefined" THEN <<>>
                                     ELSE <<"\"">> \o jsonEscape(v.keys[i]) \o <<"\"", ":">>
                                          \o JSONstringify(v.vals[i]).s],
                                  LAMBDA x : x # <<>>), <<",">>) \o <<"}">>)

\* the characters ' and ` (a TLA+ string cannot hold a grave accent: the token
\* "GRAVE" stands for that one character)
chQuote    == "'"
chBacktick == "GRAVE"

\* the first index at which pat occurs in str from index i on, 0 if none
RECURSIVE indexOfFrom(_, _, _)
indexOfFrom(str, pat, i) ==
    IF i + Len(pat) - 1 > Len(str) THEN 0
    ELSE IF SubSeq(str, i, i + Len(pat) - 1) = pat THEN i
    ELSE indexOfFrom(str, pat, i + 1)

\* GetSubstitution of String.prototype.replace for a string pattern (no captures):
\* the replacement text from its i-th character on, with $$, $&, $` and $' expanded
RECURSIVE getSubstitution(_, _, _, _, _)
getSubstitution(matched, str, position, replacement, i) ==
    IF i > Len(replacement) THEN <<>>
    ELSE IF replacement[i] = "$" /\ i < Len(replacement)
         THEN LET c == replacement[i + 1]
              IN  CASE c = "$" -> <<"$">>
                                   \o getSubstitution(matched, str, position, replacement, i + 2)
                    [] c = "&" -> matched
                                   \o getSubstitution(matched, str, position, replacement, i + 2)
                    [] c = chBacktick -> SubSeq(str, 1, position - 1)
                                   \o getSubstitution(matched, str, position, replacement, i + 2)
                    [] c = chQuote -> SubSeq(str, position + Len(matched), Len(str))
                                   \o getSubstitution(matched, str, position, replacement, i + 2)
                    [] OTHER   -> <<"$">>
                                   \o getSubstitution(matched, str, position, replacement, i + 1)
         ELSE <<replacement[i]>> \o getSubstitution(matched, str, position, replacement, i + 1)

\* str.replace(pat, replacement) for strings pat and replacement
replace(str, pat, replacement) ==
    LET position == indexOfFrom(str, pat, 1)
    IN  IF position = 0 THEN str
        ELSE SubSeq(str, 1, position - 1)
             \o getSubstitution(pat, str, position, replacement, 1)
             \o SubSeq(str, position + Len(pat), Len(str))

-----------------------------------------------------------------------------
(* Schema analysis functions *)

sFlags       == <<"f", "l", "a", "g", "s">>
sType        == <<"t", "y", "p", "e">>
sStatus      == <<"s", "t", "a", "t", "u", "s">>
sMode        == <<"m", "o", "d", "e">>
sKind        == <<"k", "i", "n", "d">>
sSectionType == <<"s", "e", "c", "t", "i", "o", "n", "T", "y", "p", "e">>
sId          == <<"i", "d">>

commonFlagNames == <<sFlags, sType, sStatus, sMode, sKind>>
standardScalars == <<nString, nInt, nFloat, nBoolean, nID>>

\* list.forEach(x => set.add(x))
RECURSIVE addAll(_, _)
addAll(set, list) ==
    IF list = <<>> THEN set ELSE addAll(SetAdd(set, Head(list)), Tail(list))

NoType == <<>>

\* [schema.getQueryType(), schema.getMutationType()].filter(Boolean)
rootsOf(s) == SelectSeq(<<s.query, s.mutation>>, LAMBDA r : r # NoType)

RECURSIVE Flatten(_)
Flatten(ss) == IF ss = <<>> THEN <<>> ELSE Head(ss) \o Flatten(Tail(ss))

\* the arguments of all fields of the root types, in the order the loops visit them
rootArgs(s) ==
    LET fields == Flatten([i \in 1..Len(rootsOf(s)) |-> s.fields[rootsOf(s)[i]]])
    IN  Flatten([i \in 1..Len(fields) |-> fields[i].args])

\* the analysis without the common flag names
analyzeSchemaFlagsNoCommon(s, customFlagTypes) ==
    LET scalar == SelectSeq(rootArgs(s),
                            LAMBDA arg : /\ isScalarType(unwrap(arg.type))
                                         /\ ~SeqHas(standardScalars, unwrap(arg.type)))
    IN  addAll(addAll(<<>>, customFlagTypes), [i \in 1..Len(scalar) |-> scalar[i].name])

\* the analysis that adds to the current list instead of starting from an empty set
analyzeSchemaFlagsIncremental(s, customFlagTypes) ==
    LET flags0 == addAll(addAll(queryFlags, customFlagTypes), commonFlagNames)
        scalar == SelectSeq(rootArgs(s),
                            LAMBDA arg : /\ isScalarType(unwrap(arg.type))
                                         /\ ~SeqHas(standardScalars, unwrap(arg.type)))
    IN  addAll(flags0, [i \in 1..Len(scalar) |-> scalar[i].name])

analyzeSchemaFlags(s, customFlagTypes) ==
    LET flags0 == addAll(addAll(<<>>, customFlagTypes), commonFlagNames)
        scalar == SelectSeq(rootArgs(s),
                            LAMBDA arg : /\ isScalarType(unwrap(arg.type))
                                         /\ ~SeqHas(standardScalars, unwrap(arg.type)))
    IN  addAll(flags0, [i \in 1..Len(scalar) |-> scalar[i].name])

analyzeSchemaEnums(s) ==
    LET types  == SelectSeq(s.typeMap, LAMBDA t : isEnumType(t) /\ ~startsWith__(t))
        enumArg == SelectSeq(rootArgs(s), LAMBDA arg : isEnumType(unwrap(arg.type)))
    IN  addAll(addAll(<<>>, types), [i \in 1..Len(enumArg) |-> enumArg[i].name])

-----------------------------------------------------------------------------
(* helper functions *)

DefaultQueryFlags == <<sFlags, sType>>
DefaultQueryEnums == <<sSectionType>>

\* isSelectionObject that looks at the first key only, however many keys there are
isSelectionObjectAnyKeys(x) ==
    /\ x.t = "object"
    /\ Len(x.keys) >= 1
    /\ x.vals[1].t = "array"

\* const keys = Object.keys(x); keys.length === 1 and Array.isArray(x[keys[0]])
isSelectionObject(x) ==
    /\ x.t = "object"
    /\ Len(x.keys) = 1
    /\ x.vals[1].t = "array"

RECURSIVE renderGqlBody(_)
renderGqlBody(e) ==
    IF isSelectionObject(e)
    THEN LET k        == e.keys[1]
             children == e.vals[1].a
             parts    == [i \in 1..Len(children) |->
                            IF isSelectionObject(children[i])
                            THEN Str(renderGqlBody(children[i]))
                            ELSE children[i]]
         IN  k \o <<" ", "{", " ">> \o joinValues(parts, <<" ">>) \o <<" ", "}">>
    ELSE IF e.t \in {"undefined", "null"} THEN <<>> ELSE toStr(e)

\* renderQueryFlags gives a string for an array and the value itself otherwise
renderQueryFlags(flags) ==
    IF flags.t = "array" THEN Str(<<"[">> \o joinValues(flags.a, <<",">>) \o <<"]">>)
    ELSE flags

RECURSIVE clauseParts(_, _, _, _)

\* the reduce that looks a key up in the enums list before the flags list
clausePartsEnumsFirst(flags, enums, params, i) ==
    IF i > Len(params.keys) THEN <<>>
    ELSE LET name == params.keys[i]
             v    == params.vals[i]
             val  == IF SeqHas(enums, name) THEN Str(toStr(v))
                     ELSE IF SeqHas(flags, name) THEN renderQueryFlags(v)
                     ELSE JSONstringify(v)
             rest == clauseParts(flags, enums, params, i + 1)
         IN  IF v.t = "undefined" THEN rest
             ELSE IF Truthy(val) THEN <<name \o <<":">> \o toStr(val)>> \o rest
             ELSE rest

\* the reduce of renderGqlQuery over the keys of params, from the i-th key on
clauseParts(flags, enums, params, i) ==
    IF i > Len(params.keys) THEN <<>>
    ELSE LET name == params.keys[i]
             v    == params.vals[i]
             val  == IF SeqHas(flags, name) THEN renderQueryFlags(v)
                     ELSE IF SeqHas(enums, name) THEN Str(toStr(v))
                     ELSE JSONstringify(v)
             rest == clauseParts(flags, enums, params, i + 1)
         IN  IF v.t = "undefined" THEN rest
             ELSE IF Truthy(val) THEN <<name \o <<":">> \o toStr(val)>> \o rest
             ELSE rest

\* the argument clause that wraps the parts in parentheses even when there are none
argumentClauseAlwaysParens(flags, enums, params) ==
    IF ~Truthy(params) THEN <<>>
    ELSE IF Len(params.keys) = 0 THEN <<>>
    ELSE <<"(">> \o join(clauseParts(flags, enums, params, 1), <<" ">>) \o <<")">>

\* the body renderGqlQuery and renderGqlQueryWithSchema share, over the lists each reads
argumentClause(flags, enums, params) ==
    IF ~Truthy(params) THEN <<>>
    ELSE IF Len(params.keys) = 0 THEN <<>>
    ELSE LET parts == clauseParts(flags, enums, params, 1)
         IN  IF Len(parts) > 0 THEN <<"(">> \o join(parts, <<" ">>) \o <<")">> ELSE <<>>

renderGqlQuery(params) == argumentClause(queryFlags, queryEnums, params)

\* the function createSchemaAwareRenderer(s, customFlagTypes) returns, applied to params
renderGqlQueryWithSchema(s, customFlagTypes, params) ==
    argumentClause(analyzeSchemaFlags(s, customFlagTypes), analyzeSchemaEnums(s), params)

CMD_PLACEHOLDER == <<"_", "_", "C", "M", "D", "_", "_">>

renderGql(cmd, body, query) ==
    LET res0 == renderGqlBody(Obj(<<CMD_PLACEHOLDER>>, <<body>>))
        res1 == replace(res0, CMD_PLACEHOLDER, cmd \o renderGqlQuery(query))
    IN  <<"{">> \o res1 \o <<"}">>

renderGqlFrom(commands, cmd, query) ==
    LET bodyWrapped == renderGqlBody(Obj(<<CMD_PLACEHOLDER>>, <<commands[cmd].body>>))
        replaced    == replace(bodyWrapped, CMD_PLACEHOLDER,
                               commands[cmd].cmd \o renderGqlQuery(query))
    IN  <<"{">> \o replaced \o <<"}">>

-----------------------------------------------------------------------------
(* Schemas of the model *)

\* the field list of a type whose fields, in declaration order, have the named
\* types tg and the names of the table nm
FieldsOf(tg, nm) ==
    [i \in 1..Len(tg) |->
        [name |-> nm[i], type |-> [wrap |-> WrapAt[i], named |-> tg[i]], args |-> <<>>]]

\* the fields of the introspection type __Type (a part of them)
IntroFields ==
    << [name |-> <<"n","a","m","e">>, type |-> [wrap |-> <<>>, named |-> nString],
        args |-> <<>>],
       [name |-> <<"o","f","T","y","p","e">>, type |-> [wrap |-> <<>>, named |-> nType],
        args |-> <<>>] >>

\* the ways to give the object types objs at most budget fields in all, each
\* field with a named type of targets
RECURSIVE NamedTables(_, _, _)
NamedTables(objs, targets, budget) ==
    IF objs = {} THEN {<<>>}
    ELSE LET t == CHOOSE x \in objs : TRUE
         IN  UNION { { (t :> tg) @@ rest :
                         tg \in [1..n -> targets],
                         rest \in NamedTables(objs \ {t}, targets, budget - n) } :
                     n \in 0..budget }

\* the field tables of a schema that declares the object types objs
FieldTables(objs) ==
    { [t \in objs \cup IntroNames |->
          IF t \in objs THEN FieldsOf(tg[t], nm) ELSE IntroFields] :
        tg \in NamedTables(objs, objs \cup {nString, nRole, nNode, nResult}, MaxFields),
        nm \in FieldNameTables }

\* the orders in which the type map can list the object types objs
ObjOrders(objs) ==
    {p \in [1..Cardinality(objs) -> objs] : \A i, j \in DOMAIN p : i # j => p[i] # p[j]}

TypeMapOf(p) == p \o <<nString, nRole, nNode, nResult, nType, nTypeKind>>

\* schemas with a Mutation root, and schemas without one
Schemas ==
    { [typeMap |-> TypeMapOf(p), fields |-> f, query |-> nQuery, mutation |-> nMutation] :
        p \in ObjOrders(ObjNames), f \in FieldTables(ObjNames) }
    \cup
    { [typeMap |-> TypeMapOf(p), fields |-> f, query |-> nQuery, mutation |-> NoType] :
        p \in ObjOrders(ObjNames \ {nMutation}), f \in FieldTables(ObjNames \ {nMutation}) }

\* the schemas of one fixed type map order (buildMapForType never reads the order)
SchemasOneOrder ==
    { [typeMap |-> TypeMapOf(<<nQuery, nMutation, nUser>>), fields |-> f,
       query |-> nQuery, mutation |-> nMutation] : f \in FieldTables(ObjNames) }

DefaultDepth    == 2
DefaultSubDepth == 1

NoCfg == [namingConvention |-> "undefined", rename |-> <<>>]

\* the configurations the compiler is called with
Cfgs ==
    { NoCfg,
      [namingConvention |-> "keep", rename |-> (nUser :> nAccount), depth |-> 1,
       subModelDepth |-> 2] }

-----------------------------------------------------------------------------
(* Plugin entry *)

TextLine(line) == [tier |-> "text", name |-> <<>>, map |-> <<>>, line |-> line]

\* for (const name of order) { ... }, from the i-th name on
RECURSIVE pluginSubmodels(_, _, _, _)
pluginSubmodels(s, c, ord, i) ==
    IF i > Len(ord) THEN <<>>
    ELSE LET name == ord[i]
             rest == pluginSubmodels(s, c, ord, i + 1)
         IN  IF ~SeqHas(s.typeMap, name) \/ ~isObjectType(name) \/ startsWith__(name)
             THEN rest
             ELSE LET subDepth == IF "subModelDepth" \in DOMAIN c
                                  THEN c.subModelDepth ELSE DefaultSubDepth
                      tsName   == toTsName(name, c)
                      mapN     == buildMapForType(s, name, subDepth, c, "sub", TRUE)
                  IN  << [tier |-> "sub", name |-> tsName \o sMap, map |-> mapN,
                          line |-> sExport \o tsName \o sMap \o sGQLMapT \o tsName
                                   \o <<",", " ">> \o sNumber \o <<">", " ", "=", " ">>
                                   \o printMap(mapN, 0) \o sAsAny],
                         TextLine(<<>>) >> \o rest

RECURSIVE pluginRootFields(_, _, _, _)

\* the root loop that skips a field whose type is not exactly a bare named type
pluginRootFieldsNoUnwrap(s, c, root, i) ==
    IF i > Len(s.fields[root]) THEN <<>>
    ELSE LET key   == s.fields[root][i].name
             ft    == s.fields[root][i].type.named
             rest  == pluginRootFields(s, c, root, i + 1)
         IN  IF isObjectType(ft) /\ s.fields[root][i].type.wrap = <<>>
             THEN << [tier |-> "root", name |-> key,
                      map |-> buildMapForType(s, ft, DefaultDepth, c, "parent", TRUE),
                      line |-> <<>>],
                     [tier |-> "text", name |-> <<>>, map |-> <<>>, line |-> <<>>] >> \o rest
             ELSE rest

\* for (const key of Object.keys(fields)) { ... } of one root type, from the i-th key on
pluginRootFields(s, c, root, i) ==
    IF i > Len(s.fields[root]) THEN <<>>
    ELSE LET key   == s.fields[root][i].name
             ft    == unwrap(s.fields[root][i].type)
             rest  == pluginRootFields(s, c, root, i + 1)
             depth == IF "depth" \in DOMAIN c THEN c.depth ELSE DefaultDepth
         IN  IF isObjectType(ft)
             THEN LET tsRet == toTsName(ft, c)
                      map   == buildMapForType(s, ft, depth, c, "parent", TRUE)
                  IN  << [tier |-> "root", name |-> key, map |-> map,
                          line |-> sExport \o key \o sGQLMapT \o tsRet \o <<",", " ">>
                                   \o toDecimal(depth) \o <<">", " ", "=", " ">>
                                   \o printMap(map, 0)],
                         TextLine(<<>>) >> \o rest
             ELSE rest

RECURSIVE pluginRoots(_, _, _, _)
pluginRoots(s, c, roots, i) ==
    IF i > Len(roots) THEN <<>>
    ELSE pluginRootFields(s, c, roots[i], 1) \o pluginRoots(s, c, roots, i + 1)

plugin(s, c, ord) ==
    << TextLine(sHeader),
       TextLine(sImportG \o sHelpers \o <<"'">>),
       TextLine(sImportT \o sTypes \o <<"'">>),
       TextLine(<<>>) >>
    \o pluginSubmodels(s, c, ord, 1)
    \o pluginRoots(s, c, rootsOf(s), 1)

-----------------------------------------------------------------------------
(* The compiler as a state machine *)

NoCall == [fn |-> "none"]

InitCompiler ==
    /\ cfg = NoCfg
    /\ order = <<>>
    /\ out = <<>>
    /\ call = NoCall
    /\ acc = <<>>

\* the helpers module as loaded, with no render call under study
InitHelpersIdle ==
    /\ queryFlags = DefaultQueryFlags
    /\ queryEnums = DefaultQueryEnums
    /\ req = NoCall
    /\ res = NoCall

\* one run of the codegen plugin on the loaded schema
Plugin ==
    \E c \in Cfgs :
        LET ord == topoOrder(collectDeps(schema))
        IN  /\ cfg' = c
            /\ order' = ord
            /\ out' = plugin(schema, c, ord)
            /\ UNCHANGED <<schema, call, acc>>
            /\ UNCHANGED helperVars

Modes == {"parent", "sub"}

\* the direct calls of buildMapForType
BuildCalls ==
    { [fn |-> "buildMapForType", t |-> t, maxDepth |-> d, mode |-> mode,
       allowRefs |-> allowRefs, returned |-> FALSE] :
        t \in ObjNames, d \in 0..MaxDepth, mode \in Modes, allowRefs \in BOOLEAN }

\* one direct call of buildMapForType returns
BuildMap ==
    /\ call.fn = "buildMapForType"
    /\ ~call.returned
    /\ call' = [call EXCEPT !.returned = TRUE]
    /\ acc' = buildMapForType(schema, call.t, call.maxDepth, cfg, call.mode, call.allowRefs)
    /\ UNCHANGED <<schema, cfg, order, out>>
    /\ UNCHANGED helperVars

InitPlugin == schema \in Schemas /\ InitCompiler /\ InitHelpersIdle
NextPlugin == Plugin
SpecPlugin == InitPlugin /\ [][NextPlugin]_vars

InitBuild ==
    /\ schema \in SchemasOneOrder
    /\ cfg \in Cfgs
    /\ call \in BuildCalls
    /\ order = <<>>
    /\ out = <<>>
    /\ acc = <<>>
    /\ InitHelpersIdle
NextBuild == BuildMap
SpecBuild == InitBuild /\ [][NextBuild]_vars

-----------------------------------------------------------------------------
(* The helpers as a state machine *)

sItems == <<"i", "t", "e", "m", "s">>
sSave  == <<"s", "a", "v", "e">>

NoSchema == [typeMap |-> <<>>, fields |-> <<>>, query |-> NoType, mutation |-> NoType]

\* type Query { items(type: Role!, id: UUID): String }
SchemaEnumArgs ==
    [typeMap |-> <<nQuery, nString, nRole, nUUID, nType, nTypeKind>>,
     fields |-> (nQuery :>
        << [name |-> sItems, type |-> [wrap |-> <<>>, named |-> nString],
            args |-> << [name |-> sType, type |-> [wrap |-> <<"NonNull">>, named |-> nRole]],
                        [name |-> sId, type |-> [wrap |-> <<>>, named |-> nUUID]] >>] >>),
     query |-> nQuery, mutation |-> NoType]

\* type Query { items(id: ID): String }  type Mutation { save(kind: [String]): String }
SchemaPlainArgs ==
    [typeMap |-> <<nQuery, nMutation, nString, nID, nType, nTypeKind>>,
     fields |-> (nQuery :>
        << [name |-> sItems, type |-> [wrap |-> <<>>, named |-> nString],
            args |-> << [name |-> sId, type |-> [wrap |-> <<>>, named |-> nID]] >>] >>)
        @@ (nMutation :>
        << [name |-> sSave, type |-> [wrap |-> <<>>, named |-> nString],
            args |-> << [name |-> sKind,
                         type |-> [wrap |-> <<"List">>, named |-> nString]] >>] >>),
     query |-> nQuery, mutation |-> nMutation]

AnalysisSchemas == {SchemaEnumArgs, SchemaPlainArgs}
CustomLists == {<<>>, <<sSectionType>>}

\* the values an argument can have
ArgValues ==
    { Undefined, Null, Bool(FALSE), Num(0), Str(<<>>), Str(<<"A">>), Str(<<"$", "$">>),
      Arr(<<Str(<<"a">>), Str(<<"b">>)>>) }

ArgKeys == {sType, sSectionType, sId}

\* the argument maps: undefined, or at most MaxArgs keys with a value each
ArgMaps ==
    {Undefined} \cup
    UNION { { Obj(k, v) : k \in {x \in [1..n -> ArgKeys] :
                                    \A i, j \in 1..n : i # j => x[i] # x[j]},
                          v \in [1..n -> ArgValues] } : n \in 0..MaxArgs }

sOp    == <<"o", "p">>
sUrl   == <<"u", "r", "l">>
sAudio == <<"a", "u", "d", "i", "o">>
s__ref == <<"_", "_", "r", "e", "f">>
sAudioMap == <<"A", "u", "d", "i", "o", "M", "a", "p">>

\* ['id', { audio: ['url'] }]
BodyNested == Arr(<<Str(sId), Obj(<<sAudio>>, <<Arr(<<Str(sUrl)>>)>>)>>)

WellFormedBodies == { Arr(<<>>), Arr(<<Str(sId)>>), BodyNested }

\* elements that are neither a name nor a single-key mapping to a sequence
MalformedElements ==
    { Num(5), Null, Obj(<<>>, <<>>),
      Obj(<<sAudio, sId>>, <<Arr(<<Str(sUrl)>>), Arr(<<>>)>>),
      Obj(<<sAudio>>, <<Obj(<<s__ref>>, <<Str(sAudioMap)>>)>>) }

MalformedBodies ==
    { Arr(<<Str(sId), m>>) : m \in MalformedElements }
    \cup { Arr(<<Obj(<<sAudio>>, <<Arr(<<m, Str(sUrl)>>)>>)>>) : m \in {Num(5), Null} }

PlainCmds   == {sOp}
PatternCmds ==
    { <<"o", "$", "&">>, <<"o", "$", chQuote>>, <<"o", "$", chBacktick>>, <<"o", "$", "1">> }

\* the commands table handed to renderGqlFrom
Commands ==
    (<<"l","o","a","d">> :> [cmd |-> sOp, body |-> BodyNested])
    @@ (<<"p","a","y">> :> [cmd |-> <<"o", "$", "&">>, body |-> Arr(<<Str(sId)>>)])

\* the render calls under study
RenderCalls ==
    { [fn |-> "renderGql", cmd |-> c, body |-> b, query |-> q] :
        c \in PlainCmds, b \in WellFormedBodies \cup MalformedBodies, q \in ArgMaps }
    \cup
    { [fn |-> "renderGql", cmd |-> c, body |-> BodyNested, query |-> q] :
        c \in PatternCmds, q \in ArgMaps }
    \cup
    { [fn |-> "renderGqlFrom", cmd |-> c, query |-> q] : c \in DOMAIN Commands, q \in ArgMaps }
    \cup
    { [fn |-> "renderGqlQueryWithSchema", query |-> q] : q \in ArgMaps }

InitHelpers ==
    /\ queryFlags = DefaultQueryFlags
    /\ queryEnums = DefaultQueryEnums
    /\ req \in RenderCalls
    /\ res = NoCall

InitializeSchemaAnalysis ==
    \E s \in AnalysisSchemas, customFlagTypes \in CustomLists :
        /\ queryFlags' = analyzeSchemaFlags(s, customFlagTypes)
        /\ queryEnums' = analyzeSchemaEnums(s)
        /\ schema' = s
        /\ res' = [fn |-> "initializeSchemaAnalysis", customFlagTypes |-> customFlagTypes]
        /\ UNCHANGED <<cfg, order, out, call, acc, req>>

\* renderGql(cmd, body, query) returns
RenderGql ==
    /\ req.fn = "renderGql"
    /\ res' = [fn |-> req.fn, value |-> renderGql(req.cmd, req.body, req.query),
               flags |-> queryFlags, enums |-> queryEnums]
    /\ UNCHANGED <<compilerVars, queryFlags, queryEnums, req>>

\* renderGqlFrom(commands, cmd, query) returns
RenderGqlFrom ==
    /\ req.fn = "renderGqlFrom"
    /\ res' = [fn |-> req.fn, value |-> renderGqlFrom(Commands, req.cmd, req.query),
               flags |-> queryFlags, enums |-> queryEnums]
    /\ UNCHANGED <<compilerVars, queryFlags, queryEnums, req>>

\* createSchemaAwareRenderer(s, customFlagTypes)(query) returns
RenderWithSchema ==
    /\ req.fn = "renderGqlQueryWithSchema"
    /\ \E s \in AnalysisSchemas, customFlagTypes \in CustomLists :
          res' = [fn |-> req.fn,
                  value |-> renderGqlQueryWithSchema(s, customFlagTypes, req.query),
                  flags |-> analyzeSchemaFlags(s, customFlagTypes),
                  enums |-> analyzeSchemaEnums(s)]
    /\ UNCHANGED <<compilerVars, queryFlags, queryEnums, req>>

InitRender == schema = NoSchema /\ InitCompiler /\ InitHelpers
NextRender == InitializeSchemaAnalysis \/ RenderGql \/ RenderGqlFrom \/ RenderWithSchema
SpecRender == InitRender /\ [][NextRender]_vars

\* the render calls that show how one argument name is classified: one key with
\* a string or a sequence
ClassifyKeys == {sFlags, sType, sStatus, sMode, sKind, sSectionType}
ClassifyValues == { Str(<<"A">>), Arr(<<Str(<<"a">>), Str(<<"b">>)>>) }
ClassifyCalls ==
    { [fn |-> "renderGql", cmd |-> sOp, body |-> Arr(<<Str(sId)>>),
       query |-> Obj(<<k>>, <<v>>)] : k \in ClassifyKeys, v \in ClassifyValues }
    \cup
    { [fn |-> "renderGqlFrom", cmd |-> <<"l","o","a","d">>, query |-> Obj(<<k>>, <<v>>)] :
        k \in ClassifyKeys, v \in ClassifyValues }
    \cup
    { [fn |-> "renderGqlQueryWithSchema", query |-> Obj(<<k>>, <<v>>)] :
        k \in ClassifyKeys, v \in ClassifyValues }

\* the helpers module as loaded (lines 313-314), with one of these calls to make
InitClassify ==
    /\ schema = NoSchema
    /\ InitCompiler
    /\ queryFlags = DefaultQueryFlags
    /\ queryEnums = DefaultQueryEnums
    /\ req \in ClassifyCalls
    /\ res = NoCall
NextClassify == InitializeSchemaAnalysis \/ RenderGql \/ RenderGqlFrom \/ RenderWithSchema
SpecClassify == InitClassify /\ [][NextClassify]_vars

-----------------------------------------------------------------------------
(* Properties of the compiler *)

Range(f) == {f[i] : i \in DOMAIN f}

\* the object types of the schema, introspection types excluded
ObjTypesOf(s) == {t \in Range(s.typeMap) : isObjectType(t) /\ ~startsWith__(t)}

\* type a has a field whose unwrapped type is the object type b
DependsOn(s, a, b) ==
    \E i \in 1..Len(s.fields[a]) : unwrap(s.fields[a][i].type) = b

\* b is reachable from a along at most n dependencies
RECURSIVE ReachesIn(_, _, _, _)
ReachesIn(s, a, b, n) ==
    /\ n > 0
    /\ \/ DependsOn(s, a, b)
       \/ \E c \in ObjTypesOf(s) : DependsOn(s, a, c) /\ ReachesIn(s, c, b, n - 1)

Reaches(s, a, b) == ReachesIn(s, a, b, Cardinality(ObjTypesOf(s)))

\* a and b lie on a common dependency cycle
OnCommonCycle(s, a, b) == Reaches(s, a, b) /\ Reaches(s, b, a)

Occurrences(seq, x) == Cardinality({i \in 1..Len(seq) : seq[i] = x})
IndexOf(seq, x) == CHOOSE i \in 1..Len(seq) : seq[i] = x

PluginRan == out # <<>>

Decls    == SelectSeq(out, LAMBDA d : d.tier # "text")
SubDecls == SelectSeq(out, LAMBDA d : d.tier = "sub")
RootDecls == SelectSeq(out, LAMBDA d : d.tier = "root")

\* the fields of type t that a selection map may name, in declaration order
EmittedFields(s, t) == SelectSeq(s.fields[t], LAMBDA f : ~startsWith__(f.name))

\* C1: whatever the dependency graph of the schema (acyclic, cyclic, with
\* self-loops), the order topoOrder returns lists every object type of the
\* schema exactly once and lists nothing else.
C1_OrderTotal ==
    PluginRan =>
        /\ \A t \in ObjTypesOf(schema) : Occurrences(order, t) = 1
        /\ \A i \in 1..Len(order) : order[i] \in ObjTypesOf(schema)

\* C1 witness: the plugin ran on a schema with a self-loop and a two-type cycle
C1_Witness ==
    /\ PluginRan
    /\ \E a, b \in ObjTypesOf(schema) :
          a # b /\ DependsOn(schema, a, b) /\ DependsOn(schema, b, a)
    /\ Len(order) = Cardinality(ObjTypesOf(schema))

\* C1 witness of a self-loop
C1_WitnessSelfLoop ==
    /\ PluginRan
    /\ \E a \in ObjTypesOf(schema) : DependsOn(schema, a, a)

\* C2 (as claimed): whenever type a has a field of object type b and a and b
\* are on no common cycle, b comes before a in the order, and the constant of
\* b is emitted before the constant of a.
C2_DepsFirst ==
    PluginRan =>
        \A a, b \in ObjTypesOf(schema) :
            (DependsOn(schema, a, b) /\ ~OnCommonCycle(schema, a, b)) =>
                /\ IndexOf(order, b) < IndexOf(order, a)
                /\ \E i, j \in 1..Len(SubDecls) :
                      /\ i < j
                      /\ SubDecls[i].name = toTsName(b, cfg) \o sMap
                      /\ SubDecls[j].name = toTsName(a, cfg) \o sMap

\* the part of C2 the code keeps: in a schema without any cycle or self-loop,
\* every type comes after the types its fields name
C2_DepsFirstAcyclic ==
    (PluginRan /\ \A c \in ObjTypesOf(schema) : ~Reaches(schema, c, c)) =>
        \A a, b \in ObjTypesOf(schema) :
            DependsOn(schema, a, b) => IndexOf(order, b) < IndexOf(order, a)

BuildReturned == call.fn = "buildMapForType" /\ call.returned

\* the element buildMapForType is claimed to emit for a field of a composite
\* type: a single-key mapping to the marker of <RenderedTargetTypeName>Map
RefElement(f, c) == KeyRef(f.name, ref(toTsName(unwrap(f.type), c) \o sMap))

\* C3 (as claimed): in 'parent' mode every emitted field whose unwrapped type
\* is neither a scalar nor an enum is a mapping to a reference marker,
\* whatever maxDepth and allowRefs are.
C3_ParentRefsComposite ==
    (BuildReturned /\ call.mode = "parent") =>
        LET fs == EmittedFields(schema, call.t)
        IN  /\ Len(acc) = Len(fs)
            /\ \A i \in 1..Len(fs) :
                  ~isLeaf(unwrap(fs[i].type)) => acc[i] = RefElement(fs[i], cfg)

\* C3 (amended): in 'parent' mode every emitted field whose unwrapped type is
\* an object type is a mapping to the reference marker of that type's map,
\* whatever maxDepth and allowRefs are; a field of an interface or union type
\* is emitted as its bare name.
C3_ParentRefsObject ==
    (BuildReturned /\ call.mode = "parent") =>
        LET fs == EmittedFields(schema, call.t)
        IN  /\ Len(acc) = Len(fs)
            /\ \A i \in 1..Len(fs) :
                  /\ isObjectType(unwrap(fs[i].type)) => acc[i] = RefElement(fs[i], cfg)
                  /\ ~isObjectType(unwrap(fs[i].type)) => acc[i] = Bare(fs[i].name)

\* C3 witness: a 'parent' call with a budget above 1 and allowRefs false returned
\* a map for a type with an object-typed field and an interface-typed field
C3_Witness ==
    /\ BuildReturned /\ call.mode = "parent" /\ call.maxDepth > 1 /\ ~call.allowRefs
    /\ \E i, j \in 1..Len(EmittedFields(schema, call.t)) :
          /\ isObjectType(unwrap(EmittedFields(schema, call.t)[i].type))
          /\ KindOf(unwrap(EmittedFields(schema, call.t)[j].type)) = "INTERFACE"
    /\ \E i \in 1..Len(acc) : acc[i].kind = "ref"

\* the root operation fields of the schema: Query's, then Mutation's
RootFields(s) == Flatten([i \in 1..Len(rootsOf(s)) |-> s.fields[rootsOf(s)[i]]])

\* the submodel constants come first, one per object type
SubmodelTier ==
    /\ Len(SubDecls) = Cardinality(ObjTypesOf(schema))
    /\ \A t \in ObjTypesOf(schema) :
          \E i \in 1..Len(SubDecls) : SubDecls[i].name = toTsName(t, cfg) \o sMap
    /\ \A i \in 1..Len(Decls) : (i <= Len(SubDecls)) <=> (Decls[i].tier = "sub")

\* C4 (as claimed): the output holds one submodel constant per object type and
\* then one root constant per field of Query and of Mutation, named after it.
C4_RootPerField ==
    PluginRan =>
        /\ SubmodelTier
        /\ Len(RootDecls) = Len(RootFields(schema))
        /\ \A i \in 1..Len(RootDecls) : RootDecls[i].name = RootFields(schema)[i].name

\* C4 (amended): the output holds one submodel constant per object type and
\* then one root constant per field of Query and of Mutation whose unwrapped
\* return type is an object type, named after that field; a root field of any
\* other return type gets no constant.
C4_RootPerObjectField ==
    PluginRan =>
        LET fs == SelectSeq(RootFields(schema), LAMBDA f : isObjectType(unwrap(f.type)))
        IN  /\ SubmodelTier
            /\ Len(RootDecls) = Len(fs)
            /\ \A i \in 1..Len(RootDecls) : RootDecls[i].name = fs[i].name

\* C4 witness: Query and Mutation each have an object-typed field that got its
\* root constant
C4_Witness ==
    /\ PluginRan
    /\ schema.mutation # NoType
    /\ Len(RootDecls) = 2
    /\ \E i \in 1..Len(schema.fields[nQuery]) :
          isObjectType(unwrap(schema.fields[nQuery][i].type))
    /\ \E i \in 1..Len(schema.fields[nMutation]) :
          isObjectType(unwrap(schema.fields[nMutation][i].type))

\* C4 witness of a root field that returns no object type
C4_WitnessLeafRoot ==
    /\ PluginRan
    /\ Len(RootDecls) = 1
    /\ Len(RootFields(schema)) = 2

\* C5: the submodel map of every object type has one element per field the
\* type declares ('__' names excluded), in declaration order, and the bare
\* name or the mapping key of each element is that field's name.
C5_SubmodelFields ==
    PluginRan =>
        /\ Len(SubDecls) = Len(order)
        /\ \A k \in 1..Len(SubDecls) :
              LET fs == EmittedFields(schema, order[k])
                  m  == SubDecls[k].map
              IN  /\ SubDecls[k].name = toTsName(order[k], cfg) \o sMap
                  /\ Len(m) = Len(fs)
                  /\ \A i \in 1..Len(m) : m[i].key = fs[i].name

\* C5 witness: a type with two emitted fields, one of them of an object type,
\* and a type with a '__' field got their submodel maps
C5_Witness ==
    /\ PluginRan
    /\ \E k \in 1..Len(SubDecls) :
          /\ Len(SubDecls[k].map) = 2
          /\ SubDecls[k].map[1].kind # SubDecls[k].map[2].kind

\* C5 witness of a skipped '__' field
C5_WitnessReserved ==
    /\ PluginRan
    /\ \E k \in 1..Len(SubDecls) :
          Len(SubDecls[k].map) < Len(schema.fields[order[k]])

-----------------------------------------------------------------------------
(* Properties of the renderer *)

IsPrefix(p, str) == Len(p) <= Len(str) /\ SubSeq(str, 1, Len(p)) = p
IsSuffix(p, str) == Len(p) <= Len(str) /\ SubSeq(str, Len(str) - Len(p) + 1, Len(str)) = p

\* a render call has returned; the command name, selection and argument map it was given
Rendered == res.fn \in {"renderGql", "renderGqlFrom"}
ReqCmd   == IF req.fn = "renderGqlFrom" THEN Commands[req.cmd].cmd ELSE req.cmd
ReqBody  == IF req.fn = "renderGqlFrom" THEN Commands[req.cmd].body ELSE req.body

\* a selection element of the documented shape: a name, or a single-key mapping
\* to a sequence
RECURSIVE WellFormed(_)
WellFormed(e) ==
    \/ e.t = "string"
    \/ /\ e.t = "object"
       /\ Len(e.keys) = 1
       /\ e.vals[1].t = "array"
       /\ \A i \in 1..Len(e.vals[1].a) : WellFormed(e.vals[1].a[i])

WellFormedBody(b) == b.t = "array" /\ \A i \in 1..Len(b.a) : WellFormed(b.a[i])

\* the text of a selection: names as they are, a mapping as "key { children }", the
\* elements joined by one space; a malformed element gives the empty string
\* (malformed = "empty") or its string coercion (malformed = "coerce")
RECURSIVE SelectionText(_, _)
ElementText(e, malformed) ==
    IF e.t = "string" THEN e.s
    ELSE IF e.t = "object" /\ Len(e.keys) = 1 /\ e.vals[1].t = "array"
    THEN e.keys[1] \o <<" ", "{", " ">> \o SelectionText(e.vals[1].a, malformed) \o <<" ", "}">>
    ELSE IF malformed = "empty" THEN <<>>
    ELSE CASE e.t = "null"   -> <<>>
           [] e.t = "number" -> toDecimal(e.n)
           [] OTHER          -> sObject

SelectionText(a, malformed) ==
    join([i \in 1..Len(a) |-> ElementText(a[i], malformed)], <<" ">>)

\* '{' + cmd + clause + ' { ' + selection + ' }' + '}'
Assembled(cmd, clause, selection) ==
    <<"{">> \o cmd \o clause \o <<" ", "{", " ">> \o selection \o <<" ", "}", "}">>

HasDollar(str) == SeqHas(str, "$")

\* no value of the argument map is there: the map is undefined, empty, or all undefined
AllAbsent(q) == q.t = "undefined" \/ \A i \in 1..Len(q.keys) : q.vals[i].t = "undefined"

\* C6: renderGql and renderGqlFrom emit no parenthesized clause, not even '()',
\* when the argument map is undefined, empty or has only undefined values: no
\* parenthesis is in the output, and for a command name without '$' the
\* output is '{' + cmd + ' { ' + selection + ' }' + '}'.
C6_NoClauseWhenAbsent ==
    (Rendered /\ AllAbsent(req.query)) =>
        /\ ~SeqHas(res.value, "(") /\ ~SeqHas(res.value, ")")
        /\ (~HasDollar(ReqCmd) /\ WellFormedBody(ReqBody)) =>
              res.value = Assembled(ReqCmd, <<>>, SelectionText(ReqBody.a, "coerce"))

\* C6 witness: a render of an argument map whose two keys are both undefined
C6_Witness ==
    /\ Rendered
    /\ req.query.t = "object" /\ Len(req.query.keys) = 2 /\ AllAbsent(req.query)
    /\ res.value = Assembled(sOp, <<>>, SelectionText(BodyNested.a, "coerce"))

\* the token of a value by the classification of its key: a flag gives the bare
\* token, or '[' + the elements joined by ',' + ']' for a sequence; an enum gives
\* the plain string coercion; anything else the JSON encoding
ValueText(flags, enums, name, v) ==
    IF SeqHas(flags, name)
    THEN IF v.t = "array" THEN <<"[">> \o joinValues(v.a, <<",">>) \o <<"]">> ELSE toStr(v)
    ELSE IF SeqHas(enums, name) THEN toStr(v)
    ELSE JSONstringify(v).s

Fragment(flags, enums, q, i) ==
    q.keys[i] \o <<":">> \o ValueText(flags, enums, q.keys[i], q.vals[i])

\* the clause made of the fragments of the keys at the indices idx (ascending)
ClauseOf(flags, enums, q, idx) ==
    IF idx = <<>> THEN <<>>
    ELSE <<"(">> \o join([k \in 1..Len(idx) |-> Fragment(flags, enums, q, idx[k])], <<" ">>)
         \o <<")">>

\* the indices of the keys whose value is not undefined, ascending
RECURSIVE PresentFrom(_, _)
PresentFrom(q, i) ==
    IF i > Len(q.keys) THEN <<>>
    ELSE (IF q.vals[i].t = "undefined" THEN <<>> ELSE <<i>>) \o PresentFrom(q, i + 1)

\* the clause a call returned, where the call returns it or the output shows it
\* unchanged: the renderer of createSchemaAwareRenderer, and renderGql for a
\* command name and argument values without '$' over a well-formed selection
ClauseVisible ==
    \/ res.fn = "renderGqlQueryWithSchema"
    \/ /\ Rendered /\ ~HasDollar(ReqCmd) /\ WellFormedBody(ReqBody)
       /\ req.query.t = "object" =>
             \A i \in 1..Len(req.query.vals) :
                 req.query.vals[i].t = "string" => ~HasDollar(req.query.vals[i].s)

\* the output shows the clause c
ShowsClause(c) ==
    IF res.fn = "renderGqlQueryWithSchema" THEN res.value = c
    ELSE res.value = Assembled(ReqCmd, c, SelectionText(ReqBody.a, "coerce"))

\* C7 (as claimed): every key whose value is not undefined has exactly one
\* 'key:value' fragment in the clause, in the order of the map; an undefined
\* value is the only reason for a key to be left out.
C7_OnlyAbsentOmitted ==
    (ClauseVisible /\ req.query.t = "object") =>
        ShowsClause(ClauseOf(res.flags, res.enums, req.query, PresentFrom(req.query, 1)))

\* the ascending index sequences over 1..n
RECURSIVE SubIndices(_, _)
SubIndices(i, n) ==
    IF i > n THEN {<<>>}
    ELSE SubIndices(i + 1, n) \cup {<<i>> \o x : x \in SubIndices(i + 1, n)}

\* C8: every fragment of the clause is 'key:' followed by the value rendered by
\* the classification of the key: flag (bare token, or '[a,b]' for a sequence)
\* before enum (plain string coercion) before anything else (JSON encoding);
\* the fragments keep the order of the map and are joined by one space.
C8_ValueByClass ==
    (ClauseVisible /\ req.query.t = "object") =>
        \E idx \in SubIndices(1, Len(req.query.keys)) :
            /\ \A k \in 1..Len(idx) : req.query.vals[idx[k]].t # "undefined"
            /\ ShowsClause(ClauseOf(res.flags, res.enums, req.query, idx))

\* C8 witness: a key that is in both lists got a sequence and was rendered as a flag
C8_Witness ==
    /\ Rendered /\ ClauseVisible
    /\ SeqHas(res.flags, sType) /\ SeqHas(res.enums, sType)
    /\ req.query = Obj(<<sId, sType>>, <<Str(<<"A">>), Arr(<<Str(<<"a">>), Str(<<"b">>)>>)>>)
    /\ ShowsClause(<<"(", "i", "d", ":", "A", " ", "t", "y", "p", "e", ":", "[", "a", ",",
                     "b", "]", ")">>)

\* C9 (as claimed): renderGql returns '{' + cmd + C + ' { ' + S + ' }' + '}' with
\* C the text of renderGqlQuery(query), character for character, and S the text
\* of the selection, whatever characters cmd and the argument values hold.
C9_AssemblyVerbatim ==
    (Rendered /\ WellFormedBody(ReqBody)) =>
        res.value = Assembled(ReqCmd, argumentClause(res.flags, res.enums, req.query),
                              SelectionText(ReqBody.a, "coerce"))

\* the part of C9 the code keeps: the equation holds when neither the command
\* name nor the clause holds a '$'
C9_AssemblyNoDollar ==
    (Rendered /\ WellFormedBody(ReqBody) /\ ~HasDollar(ReqCmd)
       /\ ~HasDollar(argumentClause(res.flags, res.enums, req.query))) =>
        res.value = Assembled(ReqCmd, argumentClause(res.flags, res.enums, req.query),
                              SelectionText(ReqBody.a, "coerce"))

\* C10 (as claimed): a malformed selection element contributes the empty
\* string; its siblings and the root token are rendered as usual.
C10_MalformedEmpty ==
    (Rendered /\ ~WellFormedBody(ReqBody)) =>
        /\ IsPrefix(<<"{">> \o ReqCmd, res.value)
        /\ IsSuffix(<<" ", "{", " ">> \o SelectionText(ReqBody.a, "empty") \o <<" ", "}", "}">>,
                    res.value)

\* C10 (amended): a malformed selection element contributes its string
\* coercion: the empty string for null, the decimal numeral for a number,
\* '[object Object]' for a mapping with zero or several keys or with a value
\* that is no sequence; the render completes, and the siblings and the root
\* token are rendered as usual.
C10_MalformedCoerced ==
    (Rendered /\ ~WellFormedBody(ReqBody)) =>
        /\ IsPrefix(<<"{">> \o ReqCmd, res.value)
        /\ IsSuffix(<<" ", "{", " ">> \o SelectionText(ReqBody.a, "coerce") \o <<" ", "}", "}">>,
                    res.value)

\* C10 witness: a selection with an unresolved reference marker was rendered
C10_Witness ==
    /\ Rendered
    /\ ReqBody = Arr(<<Str(sId), Obj(<<sAudio>>, <<Obj(<<s__ref>>, <<Str(sAudioMap)>>)>>)>>)
    /\ req.query = Undefined
    /\ res.value = <<"{", "o", "p", " ", "{", " ", "i", "d", " ">> \o sObject
                   \o <<" ", "}", "}">>

-----------------------------------------------------------------------------
(* Properties of the classification lists *)

NoDuplicates(seq) == \A i, j \in 1..Len(seq) : i # j => seq[i] # seq[j]

\* the arguments of the fields of the Query and Mutation types
RootArgsOf(s) ==
    UNION { UNION { Range(s.fields[r][i].args) : i \in 1..Len(s.fields[r]) } :
            r \in {s.query, s.mutation} \ {NoType} }

\* what the analysis of a schema and a custom list classifies as a flag: the
\* custom names, the five common names, and the root arguments of a scalar
\* type that is not a standard scalar
FlagNamesOf(s, custom) ==
    Range(custom) \cup {sFlags, sType, sStatus, sMode, sKind}
    \cup { a.name : a \in { x \in RootArgsOf(s) :
                             /\ KindOf(unwrap(x.type)) = "SCALAR"
                             /\ unwrap(x.type) \notin {nString, nInt, nFloat, nBoolean, nID} } }

\* what the analysis of a schema classifies as an enum: the enum types (the
\* introspection ones excluded) and the root arguments of an enum type
EnumNamesOf(s) ==
    { t \in Range(s.typeMap) : KindOf(t) = "ENUM" /\ ~startsWith__(t) }
    \cup { a.name : a \in { x \in RootArgsOf(s) : KindOf(unwrap(x.type)) = "ENUM" } }

\* C11: the lists start as ['flags','type'] and ['sectionType']; a call of
\* initializeSchemaAnalysis leaves them equal to the analysis of the schema and
\* custom list of that call alone (nothing kept from the defaults or from an
\* earlier call); every other step (a render call, a call of the renderer of
\* createSchemaAwareRenderer) leaves both lists as they are.
C11_Lifecycle ==
    /\ queryFlags = <<sFlags, sType>> /\ queryEnums = <<sSectionType>>
    /\ [][ IF res'.fn = "initializeSchemaAnalysis"
           THEN /\ Range(queryFlags') = FlagNamesOf(schema', res'.customFlagTypes)
                /\ Range(queryEnums') = EnumNamesOf(schema')
                /\ NoDuplicates(queryFlags') /\ NoDuplicates(queryEnums')
           ELSE UNCHANGED <<queryFlags, queryEnums>> ]_vars

\* C11 witness: a second analysis has replaced the lists: the schema analysed
\* has no enum and the custom list is empty, so the lists hold neither the
\* default 'sectionType' nor anything of another call
C11_Witness ==
    /\ res.fn = "initializeSchemaAnalysis" /\ res.customFlagTypes = <<>>
    /\ schema = SchemaPlainArgs
    /\ queryFlags = <<sFlags, sType, sStatus, sMode, sKind>>
    /\ queryEnums = <<>>

\* C11 witness: a render call has returned after an analysis and the lists are
\* the lists of that analysis
C11_WitnessRender ==
    /\ Rendered /\ schema = SchemaEnumArgs
    /\ Range(queryEnums) = {nRole, sType}
    /\ sId \in Range(queryFlags)

\* the five common flag names
CommonNames == {sFlags, sType, sStatus, sMode, sKind}

\* an analysis has run: initializeSchemaAnalysis stores its schema, and the
\* module is loaded with none
Analysed == schema # NoSchema

\* the one argument of the call under study
ReqKey   == req.query.keys[1]
ReqValue == req.query.vals[1]

\* the clause with the one argument as a bare token, and as its JSON encoding
BareClause   == <<"(">> \o ReqKey \o <<":">> \o ValueText(<<ReqKey>>, <<>>, ReqKey, ReqValue)
                \o <<")">>
QuotedClause == <<"(">> \o ReqKey \o <<":">> \o ValueText(<<>>, <<>>, ReqKey, ReqValue)
                \o <<")">>

\* C12 (as claimed): in every reachable state, before any analysis and after
\* any number of them, each of flags, type, status, mode, kind is in the flags
\* list and a render call gives an argument of that name as a bare token.
C12_CommonNamesAlways ==
    /\ \A n \in CommonNames : SeqHas(queryFlags, n)
    /\ (res.fn \in {"renderGql", "renderGqlFrom", "renderGqlQueryWithSchema"}
        /\ ReqKey \in CommonNames) => ShowsClause(BareClause)

\* C12 (amended): once an analysis has run, whatever its schema and custom
\* list, each of the five names is in the flags list and a render call gives
\* an argument of that name as a bare token, as does the renderer of
\* createSchemaAwareRenderer; before the first analysis the flags list is
\* ['flags','type'], so only these two are bare and status, mode and kind are
\* rendered as JSON.
C12_CommonNamesOnceAnalysed ==
    /\ Analysed => \A n \in CommonNames : SeqHas(queryFlags, n)
    /\ ~Analysed => queryFlags = <<sFlags, sType>>
    /\ (res.fn = "renderGqlQueryWithSchema" /\ ReqKey \in CommonNames) =>
          ShowsClause(BareClause)
    /\ (Rendered /\ ReqKey \in CommonNames) =>
          IF Analysed \/ ReqKey \in {sFlags, sType}
          THEN ShowsClause(BareClause)
          ELSE ShowsClause(QuotedClause)

\* C12 witness: after an analysis, status: ['a','b'] was rendered as status:[a,b]
C12_Witness ==
    /\ Analysed /\ res.fn = "renderGql" /\ ReqKey = sStatus
    /\ res.value = <<"{", "o", "p", "(", "s", "t", "a", "t", "u", "s", ":", "[", "a", ",",
                     "b", "]", ")", " ", "{", " ", "i", "d", " ", "}", "}">>

\* C12 witness: before any analysis, kind: 'A' was rendered as kind:"A"
C12_WitnessBefore ==
    /\ ~Analysed /\ res.fn = "renderGql" /\ ReqKey = sKind
    /\ res.value = <<"{", "o", "p", "(", "k", "i", "n", "d", ":", "\"", "A", "\"", ")", " ",
                     "{", " ", "i", "d", " ", "}", "}">>

\* C13 (as claimed): after initializeSchemaAnalysis, for every schema, 'flags'
\* and 'type' are still in the flags list and 'sectionType' is still in the
\* enums list, and a render call with one of these arguments returns the
\* string it returned under the hard-coded lists.
C13_DefaultsKept ==
    /\ Analysed =>
          /\ SeqHas(queryFlags, sFlags) /\ SeqHas(queryFlags, sType)
          /\ SeqHas(queryEnums, sSectionType)
    /\ (Rendered /\ ReqKey \in {sFlags, sType, sSectionType}) =>
          ShowsClause(<<"(">> \o ReqKey \o <<":">>
                      \o ValueText(<<sFlags, sType>>, <<sSectionType>>, ReqKey, ReqValue)
                      \o <<")">>)

\* the part of C13 the code keeps: 'flags' and 'type' stay flags
C13_DefaultFlagsKept ==
    /\ SeqHas(queryFlags, sFlags) /\ SeqHas(queryFlags, sType)
    /\ (Rendered /\ ReqKey \in {sFlags, sType}) => ShowsClause(BareClause)

-----------------------------------------------------------------------------
(* Properties of the inline fallback and of the exported names *)

Max(a, b) == IF a >= b THEN a ELSE b

\* the descriptor the inline fallback is to give for type t at budget n: a field
\* of an object type is a bare name at budget 1 or less and a mapping to the
\* descriptor of its type at budget n - 1 above that; every other field is a
\* bare name
RECURSIVE Inlined(_, _, _)
Inlined(s, t, n) ==
    LET fs == EmittedFields(s, t)
    IN  [i \in 1..Len(fs) |->
            IF isObjectType(unwrap(fs[i].type)) /\ n > 1
            THEN KeyMap(fs[i].name, Inlined(s, unwrap(fs[i].type), n - 1))
            ELSE Bare(fs[i].name)]

\* the number of sequences nested in one another in a descriptor (1 when flat)
RECURSIVE Nesting(_)
Nesting(d) ==
    LET subs == {i \in 1..Len(d) : d[i].kind = "map"}
        RECURSIVE MaxOf(_)
        MaxOf(S) == IF S = {} THEN 0
                    ELSE LET i == CHOOSE x \in S : TRUE
                         IN  Max(Nesting(d[i].val), MaxOf(S \ {i}))
    IN  1 + MaxOf(subs)

\* no reference marker at any level of a descriptor
RECURSIVE NoRefs(_)
NoRefs(d) ==
    \A i \in 1..Len(d) : d[i].kind # "ref" /\ (d[i].kind = "map" => NoRefs(d[i].val))

\* C14: in mode 'sub' with allowRefs false, a field of an object type is a bare
\* name at budget 1 or less and a mapping to the descriptor of its type built
\* at budget n - 1 at budget n > 1; there is no reference marker; the result
\* nests no deeper than the budget (a flat list at budget 1 or less), also on
\* schemas with cycles and self-references.
C14_InlineFallback ==
    (BuildReturned /\ call.mode = "sub" /\ ~call.allowRefs) =>
        /\ acc = Inlined(schema, call.t, call.maxDepth)
        /\ NoRefs(acc)
        /\ Nesting(acc) <= Max(call.maxDepth, 1)

\* C14 witness: at budget 2 a type with a field of a self-referencing type got
\* a mapping whose inner descriptor names the self-reference as a bare name
C14_Witness ==
    /\ BuildReturned /\ call.mode = "sub" /\ ~call.allowRefs /\ call.maxDepth = 2
    /\ \E i \in 1..Len(acc) :
          /\ acc[i].kind = "map"
          /\ LET ft == unwrap(EmittedFields(schema, call.t)[i].type)
             IN  /\ ft # call.t
                 /\ DependsOn(schema, ft, ft)
                 /\ \E j \in 1..Len(acc[i].val) :
                       /\ acc[i].val[j].kind = "name"
                       /\ unwrap(EmittedFields(schema, ft)[j].type) = ft

\* C14 witness: at budget 0 an object-typed field is a bare name
C14_WitnessZero ==
    /\ BuildReturned /\ call.mode = "sub" /\ ~call.allowRefs /\ call.maxDepth = 0
    /\ \E i \in 1..Len(acc) :
          acc[i].kind = "name" /\ isObjectType(unwrap(EmittedFields(schema, call.t)[i].type))

\* the reference markers of a descriptor, at any level
RECURSIVE RefsOf(_)
RefsOf(d) ==
    UNION { CASE d[i].kind = "ref" -> {d[i].val}
              [] d[i].kind = "map" -> RefsOf(d[i].val)
              [] OTHER -> {} : i \in 1..Len(d) }

\* C15 (as claimed): the exported constant names of one plugin output are
\* pairwise distinct, whatever the schema and the naming configuration, and
\* every reference marker in the output names exactly one emitted constant.
C15_NamesDistinct ==
    PluginRan =>
        /\ \A i, j \in 1..Len(Decls) : i # j => Decls[i].name # Decls[j].name
        /\ \A i \in 1..Len(Decls) : \A r \in RefsOf(Decls[i].map) :
              Cardinality({j \in 1..Len(Decls) : Decls[j].name = r.__ref}) = 1

\* the part of C15 the code keeps on the schemas of the model, whose type names
\* stay distinct under both naming configurations: the submodel constants are
\* pairwise distinct and every reference marker names exactly one of them
C15_SubmodelNamesDistinct ==
    PluginRan =>
        /\ \A i, j \in 1..Len(SubDecls) : i # j => SubDecls[i].name # SubDecls[j].name
        /\ \A i \in 1..Len(Decls) : \A r \in RefsOf(Decls[i].map) :
              Cardinality({j \in 1..Len(SubDecls) : SubDecls[j].name = r.__ref}) = 1

====
